---- MODULE Spec2Model ----
(***************************************************************************)
(* NetGuard (aufarakha/Jblocker): the traffic monitor, its block list, the *)
(* connection poller, the intercepting proxy addon, the gambling detector  *)
(* and the bandwidth sampler, as state machines over the objects' fields.  *)
(*                                                                         *)
(* Strings that the code parses (domains, urls) are sequences of one-      *)
(* character strings; the scheme prefix "http://" is one token.            *)
(* Probabilities and thresholds are integers in units of 1/Scale.          *)
(* Times are whole seconds.                                                *)
(***************************************************************************)
EXTENDS Integers, Sequences, FiniteSets, TLC

VARIABLES
    monitoring_active,   \* NetworkTrafficMonitor.monitoring_active
    dev_mode,            \* NetworkTrafficMonitor.dev_mode
    monitor_thread,      \* handle of the poller thread, 0 for None
    proxy_thread,        \* handle of the proxy thread, 0 for None
    threads,             \* every thread ever spawned: tid -> [kind, alive, pc]
    stopper,             \* the caller of stop_monitoring: "idle" or "joining"
    blocked_domains,     \* NetworkTrafficMonitor.blocked_domains (a set object)
    blocked_sites,       \* table blocked_sites: sequence of rows, oldest first
    addons,              \* tid of a proxy thread -> its ProxyAddon's blocked set
    flows,               \* flow id -> the HTTPFlow object's state
    traffic_logs,        \* table traffic_logs
    detection_logs,      \* table detection_logs
    now,                 \* wall clock, seconds
    connections_cache,   \* NetworkTrafficMonitor.connections_cache
    ml_predictor,        \* NetworkTrafficMonitor.ml_predictor
    model,               \* GamblingDetector.model
    settings,            \* table settings, key 'sensitivity'
    last_net_check,      \* NetworkTrafficMonitor._last_net_check
    last_bandwidth_log,  \* NetworkTrafficMonitor._last_bandwidth_log
    bandwidth_history,   \* table bandwidth_history
    driver,              \* the caller's schedule of get_real_time_stats
    requests,            \* calls of the monitor running step by step in threads
    last                 \* the last operation: its arguments, faults and result

lifeVars  == <<monitoring_active, dev_mode, monitor_thread, proxy_thread, threads,
               stopper>>
blockVars == <<blocked_domains, blocked_sites>>
proxyVars == <<addons, flows, traffic_logs>>
pollVars  == <<connections_cache>>
detVars   == <<ml_predictor, model, settings>>
statVars  == <<last_net_check, last_bandwidth_log, bandwidth_history, driver>>
callVars  == <<requests>>

vars == <<monitoring_active, dev_mode, monitor_thread, proxy_thread, threads,
          stopper, blocked_domains, blocked_sites, addons, flows, traffic_logs,
          detection_logs, now, connections_cache, ml_predictor, model, settings,
          last_net_check, last_bandwidth_log, bandwidth_history, driver, requests,
          last>>

-----------------------------------------------------------------------------
(* Strings                                                                 *)

Scheme == "http://"

\* The domains the callers pass to block_domain / unblock_domain.
Domains == { <<"a">>, <<"b">> }

\* f"http://{domain}"
HttpUrl(domain) == <<Scheme>> \o domain

NetlocEnd == {"/", "?", "#"}

RECURSIVE TakeNetloc(_)
TakeNetloc(s) ==
    IF s = <<>> \/ Head(s) \in NetlocEnd THEN <<>>
    ELSE <<Head(s)>> \o TakeNetloc(Tail(s))

\* urlparse(url).netloc: what follows the scheme's "//" up to the first of / ? #
Netloc(url) ==
    IF url # <<>> /\ Head(url) = Scheme THEN TakeNetloc(Tail(url)) ELSE <<>>

SeqToSet(s) == { s[i] : i \in 1..Len(s) }

-----------------------------------------------------------------------------
(* Threads.  A tid is the order of spawning; 0 stands for None.            *)

MaxThreads == 3
Tids == 1..MaxThreads

NoThread == [kind |-> "none", alive |-> FALSE, pc |-> "none"]
NoAddon  == [made |-> FALSE, shared |-> FALSE, own |-> {}]

\* block_domain / unblock_domain calls that may run at the same time (Flask
\* request threads and the poller's auto-block).
MaxRequests == 2
RequestIds == 1..MaxRequests
NoRequest == [op |-> "none", domain |-> <<>>, pc |-> "idle", ret |-> TRUE]

\* The flows the proxy sees, in the order of their requests.
MaxFlows == 2
FlowIds == 1..MaxFlows

\* An HTTPFlow no hook has seen yet.
NoFlow == [stage |-> "new", via |-> 0, url |-> <<>>, has_info |-> FALSE,
           reply |-> "none", listed |-> FALSE, after_stop |-> FALSE]

-----------------------------------------------------------------------------
(* The last operation.  Every action sets it, so that "immediately after   *)
(* operation X returned" is the set of states with last.op = X.            *)

Brief(l) == [op |-> l.op, arg |-> l.arg, ret |-> l.ret]

NoOp == [op |-> "init", arg |-> <<>>, ret |-> TRUE]

-----------------------------------------------------------------------------
(* DatabaseManager: blocked_sites                                          *)

DbOutcomes == {"ok", "error"}

HasUrl(table, url) == \E i \in 1..Len(table) : table[i].url = url

\* INSERT (no OR IGNORE): a second row for the same url.
InsertAlways(table, url, reason, outcome) ==
    IF outcome = "ok" THEN Append(table, [url |-> url, reason |-> reason])
    ELSE table

\* add_blocked_site: INSERT OR IGNORE under the UNIQUE(url) constraint; an
\* exception is swallowed (return False) and the table is as before.
AddBlockedSite(table, url, reason, outcome) ==
    IF outcome = "ok" /\ ~HasUrl(table, url)
    THEN Append(table, [url |-> url, reason |-> reason])
    ELSE table

\* remove_blocked_site: DELETE FROM blocked_sites WHERE url = ?
RemoveBlockedSite(table, url, outcome) ==
    IF outcome = "ok" THEN SelectSeq(table, LAMBDA r : r.url # url) ELSE table

\* get_blocked_sites: every row (the order does not matter to its callers here)
GetBlockedSites(table) == SeqToSet(table)

\* The set of the stored urls themselves.
LoadBlockedUrls(table) == { r.url : r \in GetBlockedSites(table) }

\* load_blocked_sites: {urlparse(site['url']).netloc for site in blocked_sites}
LoadBlockedSites(table) == { Netloc(r.url) : r \in GetBlockedSites(table) }

CountUrl(table, url) == Cardinality({ i \in 1..Len(table) : table[i].url = url })

-----------------------------------------------------------------------------
(* NetworkTrafficMonitor.block_domain / unblock_domain                     *)

\* The hosts-file step: done, PermissionError (caught, printed), or another
\* OSError (caught by the outer handler: the call returns False).
HostsOutcomes == {"ok", "permission", "oserror"}

BlockReason == "Gambling detected"

\* block_domain without the in-memory add.
BlockedAfterBlockForgets(set, domain) == set

\* self.blocked_domains.add(domain)
BlockedAfterBlock(set, domain) == set \cup {domain}

\* self.blocked_domains.discard(domain)
BlockedAfterUnblock(set, domain) == set \ {domain}

\* Success reported only when the hosts file was written.
BlockReturnsOnlyEnforced(hosts) == hosts = "ok"

\* The value block_domain / unblock_domain return: PermissionError is caught
\* next to the hosts-file write, any other OSError by the outer handler.
BlockReturns(hosts) == hosts # "oserror"

\* The effect of block_domain on the store and the set; the set object is
\* mutated in place, so an addon sharing it sees the change.
BlockEffect(domain, db) ==
    /\ blocked_sites' = AddBlockedSite(blocked_sites, HttpUrl(domain), BlockReason, db)
    /\ blocked_domains' = BlockedAfterBlock(blocked_domains, domain)

BlockDomain(domain, db, hosts) ==
    /\ BlockEffect(domain, db)
    /\ last' = [op |-> "block", arg |-> domain, ret |-> BlockReturns(hosts),
                db |-> db, hosts |-> hosts, pre |-> blocked_domains,
                prev |-> Brief(last)]
    /\ UNCHANGED <<lifeVars, proxyVars, pollVars, detVars, callVars, statVars,
                   detection_logs, now>>

UnblockDomain(domain, db, hosts) ==
    /\ blocked_sites' = RemoveBlockedSite(blocked_sites, HttpUrl(domain), db)
    /\ blocked_domains' = BlockedAfterUnblock(blocked_domains, domain)
    /\ last' = [op |-> "unblock", arg |-> domain, ret |-> BlockReturns(hosts),
                db |-> db, hosts |-> hosts, pre |-> blocked_domains,
                prev |-> Brief(last)]
    /\ UNCHANGED <<lifeVars, proxyVars, pollVars, detVars, callVars, statVars,
                   detection_logs, now>>

\* The hosts file as unblock_domain finds it: a sequence of lines, each a
\* sequence of characters where "127.0.0.1 ", "www." and "# " are one token
\* each; every line but possibly the last ends with the newline.
Loopback == "127.0.0.1 "
Www == "www."
Newline == "\n"

\* f"\n127.0.0.1 {domain}" and f"\n127.0.0.1 www.{domain}" as they read
\* back once a further line follows them
HostsEntry(domain) == <<Loopback>> \o domain \o <<Newline>>
HostsWwwEntry(domain) == <<Loopback, Www>> \o domain \o <<Newline>>

\* Python's "domain in line" on strings: domain is a substring of line
Contains(line, domain) ==
    \E i \in 0..(Len(line) - Len(domain)) : SubSeq(line, i + 1, i + Len(domain)) = domain

\* A rewrite that drops the domain's own entry only.
HostsFilterOwnEntry(lines, domain) == SelectSeq(lines, LAMBDA l : l # HostsEntry(domain))

\* for line in lines: if domain not in line: f.write(line)
HostsFilter(lines, domain) == SelectSeq(lines, LAMBDA l : ~Contains(l, domain))

\* unblock_domain(domain) with the hosts file readable and writable; file is
\* what f.readlines() returns, written is what the rewrite leaves.
UnblockDomainOn(domain, db, file) ==
    /\ blocked_sites' = RemoveBlockedSite(blocked_sites, HttpUrl(domain), db)
    /\ blocked_domains' = BlockedAfterUnblock(blocked_domains, domain)
    /\ last' = [op |-> "unblock", arg |-> domain, ret |-> BlockReturns("ok"),
                db |-> db, hosts |-> "ok", file |-> file,
                written |-> HostsFilter(file, domain)]
    /\ UNCHANGED <<lifeVars, proxyVars, pollVars, detVars, callVars, statVars,
                   detection_logs, now>>

\* block_domain / unblock_domain statement by statement, for callers in
\* different threads: the store write (under DatabaseManager.lock), then the
\* update of the set, then the hosts file and the return.
CallBegin(c, op, domain) ==
    /\ requests[c].pc \in {"idle", "done"}
    /\ requests' = [requests EXCEPT ![c] =
                      [op |-> op, domain |-> domain, pc |-> "store", ret |-> TRUE]]
    /\ last' = [op |-> "call_begin", arg |-> c, ret |-> TRUE]
    /\ UNCHANGED <<lifeVars, blockVars, proxyVars, pollVars, detVars, statVars,
                   detection_logs, now>>

CallStore(c, db) ==
    /\ requests[c].pc = "store"
    /\ blocked_sites' =
          IF requests[c].op = "block"
          THEN AddBlockedSite(blocked_sites, HttpUrl(requests[c].domain), BlockReason, db)
          ELSE RemoveBlockedSite(blocked_sites, HttpUrl(requests[c].domain), db)
    /\ requests' = [requests EXCEPT ![c].pc = "memory"]
    /\ last' = [op |-> "call_store", arg |-> c, ret |-> db = "ok"]
    /\ UNCHANGED <<lifeVars, blocked_domains, proxyVars, pollVars, detVars, statVars,
                   detection_logs, now>>

CallMemory(c) ==
    /\ requests[c].pc = "memory"
    /\ blocked_domains' =
          IF requests[c].op = "block"
          THEN BlockedAfterBlock(blocked_domains, requests[c].domain)
          ELSE BlockedAfterUnblock(blocked_domains, requests[c].domain)
    /\ requests' = [requests EXCEPT ![c].pc = "hosts"]
    /\ last' = [op |-> "call_memory", arg |-> c, ret |-> TRUE]
    /\ UNCHANGED <<lifeVars, blocked_sites, proxyVars, pollVars, detVars, statVars,
                   detection_logs, now>>

CallReturn(c, hosts) ==
    /\ requests[c].pc = "hosts"
    /\ requests' = [requests EXCEPT ![c].pc = "done", ![c].ret = BlockReturns(hosts)]
    /\ last' = [op |-> "call_return", arg |-> c, ret |-> BlockReturns(hosts)]
    /\ UNCHANGED <<lifeVars, blockVars, proxyVars, pollVars, detVars, statVars,
                   detection_logs, now>>

\* A new process over the same database: every thread and every in-memory
\* object of the old process is gone, and NetworkTrafficMonitor.__init__ runs.
Restart ==
    /\ monitoring_active' = FALSE
    /\ dev_mode' = FALSE
    /\ monitor_thread' = 0
    /\ proxy_thread' = 0
    /\ threads' = [t \in Tids |-> NoThread]
    /\ stopper' = "idle"
    /\ blocked_domains' = LoadBlockedSites(blocked_sites)
    /\ connections_cache' = <<>>
    /\ addons' = [t \in Tids |-> NoAddon]
    /\ flows' = [f \in FlowIds |-> NoFlow]
    /\ last_net_check' = [has |-> FALSE]
    /\ last_bandwidth_log' = [has |-> FALSE]
    /\ requests' = [c \in RequestIds |-> NoRequest]
    /\ last' = [op |-> "restart", arg |-> <<>>, ret |-> TRUE,
                prev |-> IF last.op \in {"block", "unblock"}
                         THEN [op |-> last.op, arg |-> last.arg, ret |-> last.ret,
                               db |-> last.db]
                         ELSE [op |-> last.op, arg |-> <<>>, ret |-> TRUE,
                               db |-> "none"]]
    /\ UNCHANGED <<blocked_sites, traffic_logs, detection_logs, bandwidth_history,
                   detVars, driver, now>>


-----------------------------------------------------------------------------
(* NetworkTrafficMonitor.start_monitoring / stop_monitoring and the threads *)

Spawned == { t \in Tids : threads[t].kind # "none" }
AlivePollers == { t \in Tids : threads[t].kind = "poller" /\ threads[t].alive }
AliveProxies == { t \in Tids : threads[t].kind = "proxy" /\ threads[t].alive }

NewPoller == [kind |-> "poller", alive |-> TRUE, pc |-> "loop"]
NewProxy  == [kind |-> "proxy", alive |-> TRUE, pc |-> "starting"]

\* start_monitoring without the "already active" test.
StartRefusedNever(active) == FALSE

\* if self.monitoring_active: return False
StartRefused(active) == active

\* start_monitoring(dev_mode), called by a caller that is not inside
\* stop_monitoring.  The new threads take the next tids.
StartMonitoring(dev) ==
    /\ stopper = "idle"
    /\ IF StartRefused(monitoring_active)
       THEN /\ last' = [op |-> "start", arg |-> dev, ret |-> FALSE]
            /\ UNCHANGED lifeVars
       ELSE LET t1 == Cardinality(Spawned) + 1
                t2 == t1 + 1
            IN  /\ (IF dev THEN t2 ELSE t1) <= MaxThreads
                /\ monitoring_active' = TRUE
                /\ dev_mode' = dev
                /\ monitor_thread' = t1
                /\ proxy_thread' = IF dev THEN t2 ELSE proxy_thread
                /\ threads' = [t \in Tids |->
                                 IF t = t1 THEN NewPoller
                                 ELSE IF dev /\ t = t2 THEN NewProxy
                                 ELSE threads[t]]
                /\ stopper' = stopper
                /\ last' = [op |-> "start", arg |-> dev, ret |-> TRUE]
    /\ UNCHANGED <<blockVars, proxyVars, pollVars, detVars, callVars, statVars,
                   detection_logs, now>>

\* start_monitoring statement by statement, for callers in different request
\* threads: first the test of the flag ...
StartCheck(c, dev) ==
    /\ requests[c].pc = "idle"
    /\ requests' = [requests EXCEPT ![c] =
                      [op |-> "start", domain |-> <<>>,
                       pc |-> IF StartRefused(monitoring_active) THEN "done" ELSE "spawn",
                       ret |-> ~StartRefused(monitoring_active), dev |-> dev]]
    /\ last' = [op |-> "start_check", arg |-> c, ret |-> ~StartRefused(monitoring_active)]
    /\ UNCHANGED <<lifeVars, blockVars, proxyVars, pollVars, detVars, statVars,
                   detection_logs, now>>

\* ... then the flag is set, the threads are started and True is returned.
StartSpawn(c) ==
    /\ requests[c].pc = "spawn"
    /\ LET dev == requests[c].dev
           t1 == Cardinality(Spawned) + 1
           t2 == t1 + 1
       IN  /\ (IF dev THEN t2 ELSE t1) <= MaxThreads
           /\ monitoring_active' = TRUE
           /\ dev_mode' = dev
           /\ monitor_thread' = t1
           /\ proxy_thread' = IF dev THEN t2 ELSE proxy_thread
           /\ threads' = [t \in Tids |->
                            IF t = t1 THEN NewPoller
                            ELSE IF dev /\ t = t2 THEN NewProxy
                            ELSE threads[t]]
           /\ last' = [op |-> "start_spawn", arg |-> c, ret |-> TRUE]
    /\ requests' = [requests EXCEPT ![c].pc = "done"]
    /\ UNCHANGED <<stopper, blockVars, proxyVars, pollVars, detVars, statVars,
                   detection_logs, now>>

\* stop_monitoring up to its first join: the flag is cleared.
StopBegin ==
    /\ stopper = "idle"
    /\ monitoring_active' = FALSE
    /\ stopper' = "joining"
    /\ last' = [op |-> "stop_begin", arg |-> <<>>, ret |-> TRUE]
    /\ UNCHANGED <<dev_mode, monitor_thread, proxy_thread, threads, blockVars,
                   proxyVars, pollVars, detVars, callVars, statVars, detection_logs, now>>

\* thread.join() without a timeout: the caller stays blocked while the
\* thread runs.
JoinOutcomeUntimed(t) ==
    IF t = 0 THEN "skipped"
    ELSE IF threads[t].alive THEN "blocked" ELSE "joined"

\* "if self.monitor_thread: self.monitor_thread.join(timeout=5)": nothing to
\* wait for when the handle is None; a thread that has ended is joined; the
\* wait for a thread that keeps running ends with the timeout.
JoinOutcome(t) ==
    IF t = 0 THEN "skipped"
    ELSE IF threads[t].alive THEN "timeout" ELSE "joined"

\* stop_monitoring returns: each join(timeout=5) ended because its thread had
\* ended or because the timeout expired; a thread still alive is left running.
StopReturn ==
    /\ stopper = "joining"
    /\ JoinOutcome(monitor_thread) # "blocked"
    /\ JoinOutcome(proxy_thread) # "blocked"
    /\ stopper' = "idle"
    /\ last' = [op |-> "stop", arg |-> <<>>, ret |-> TRUE,
                joins |-> <<JoinOutcome(monitor_thread), JoinOutcome(proxy_thread)>>]
    /\ UNCHANGED <<monitoring_active, dev_mode, monitor_thread, proxy_thread,
                   threads, blockVars, proxyVars, pollVars, detVars, callVars, statVars,
                   detection_logs, now>>

\* "while True"
LoopContinuesAlways(active) == TRUE

\* while self.monitoring_active
LoopContinues(active) == active

\* _monitor_connections: the test of "while self.monitoring_active".
PollerLoopCheck(t) ==
    /\ t \in AlivePollers
    /\ threads[t].pc = "loop"
    /\ threads' = [threads EXCEPT ![t] =
                     IF LoopContinues(monitoring_active)
                     THEN [@ EXCEPT !.pc = "cycle"]
                     ELSE [@ EXCEPT !.alive = FALSE, !.pc = "done"]]
    /\ last' = [op |-> "poller_loop", arg |-> t, ret |-> monitoring_active]
    /\ UNCHANGED <<monitoring_active, dev_mode, monitor_thread, proxy_thread,
                   stopper, blockVars, proxyVars, pollVars, detVars, callVars, statVars,
                   detection_logs, now>>

\* time.sleep(2) after a cycle, time.sleep(5) after a failed one
CycleSleep == 2
BackoffSleep == 5

\* _monitor_connections: the flag read True, psutil.net_connections raised;
\* the handler of the cycle prints, sleeps and the thread is back at the loop
\* test.
PollerEnumerationFails(t) ==
    /\ t \in AlivePollers
    /\ threads[t].pc = "loop"
    /\ LoopContinues(monitoring_active)
    /\ last' = [op |-> "poller_backoff", arg |-> t, ret |-> FALSE, sleep |-> BackoffSleep]
    /\ UNCHANGED <<lifeVars, blockVars, proxyVars, pollVars, detVars, callVars, statVars,
                   detection_logs, now>>

\* _monitor_connections: the connections of the cycle are done; the thread
\* sleeps and goes back to the loop test.
PollerCycleEnd(t) ==
    /\ t \in AlivePollers
    /\ threads[t].pc = "cycle"
    /\ threads' = [threads EXCEPT ![t].pc = "loop"]
    /\ last' = [op |-> "poller_sleep", arg |-> t, ret |-> TRUE, sleep |-> CycleSleep]
    /\ UNCHANGED <<monitoring_active, dev_mode, monitor_thread, proxy_thread,
                   stopper, blockVars, proxyVars, pollVars, detVars, callVars, statVars,
                   detection_logs, now>>

ProxyOutcomes == {"run", "error"}

\* ProxyAddon.__init__: self.blocked_domains = blocked_domains or set().
\* An empty set is falsy, so the addon then gets a set of its own.
AddonFor(set) == [made |-> TRUE, shared |-> set # {}, own |-> {}]

\* _start_proxy in thread t: the addon is made, then master.run() serves until
\* the process ends (it never reads monitoring_active), or an exception ends
\* the thread.
ProxyStartup(t, outcome) ==
    /\ t \in AliveProxies
    /\ threads[t].pc = "starting"
    /\ addons' = [addons EXCEPT ![t] = AddonFor(blocked_domains)]
    /\ threads' = [threads EXCEPT ![t] =
                     IF outcome = "run"
                     THEN [@ EXCEPT !.pc = "serving"]
                     ELSE [@ EXCEPT !.alive = FALSE, !.pc = "done"]]
    /\ last' = [op |-> "proxy_start", arg |-> t, ret |-> outcome = "run"]
    /\ UNCHANGED <<monitoring_active, dev_mode, monitor_thread, proxy_thread,
                   stopper, blockVars, flows, traffic_logs, pollVars, detVars, callVars,
                   statVars, detection_logs, now>>

\* The set the addon of proxy thread t reads and writes.
AddonSet(t) == IF addons[t].shared THEN blocked_domains ELSE addons[t].own

-----------------------------------------------------------------------------
(* GamblingDetector.predict_gambling                                       *)

\* float(sensitivity_setting) / 100.0
PercentScale == 100
\* Probabilities and thresholds are counted in two-hundredths (0.005).
Scale == 2 * PercentScale

\* 0.5: the fallback probability and the default sensitivity
Neutral == Scale \div 2
DefaultSensitivity == Scale \div 2

\* The value stored under 'sensitivity': no row (None), the empty string,
\* the decimal spelling of an integer, or a text float() rejects.
Sensitivities == 0..100
SettingValues ==
    {[kind |-> k, value |-> 0] : k \in {"absent", "empty", "text"}}
        \cup {[kind |-> "number", value |-> v] : v \in Sensitivities}

\* init_default_settings: 'sensitivity': '50'
DefaultSetting == [kind |-> "number", value |-> 50]

\* "if sensitivity_setting:" - None and '' are falsy
Truthy(setting) == setting.kind \notin {"absent", "empty"}

Threshold(setting) == (setting.value * Scale) \div PercentScale

Probabilities == 0..Scale

\* What self.model.predict_proba([features]) does: raises, returns a row
\* with a single class, or a row whose second entry is p.
ProbaOutcomes ==
    {[kind |-> k, p |-> 0] : k \in {"raise", "one"}}
        \cup {[kind |-> "two", p |-> p] : p \in Probabilities}

\* The detector's db_manager: not set, its get_setting raises, or it answers.
StoreOutcomes == {"none", "raise", "ok"}

\* gambling_prob >= sensitivity
FlaggedAtOrAbove(p, t) == p >= t

\* is_gambling = gambling_prob > sensitivity
Flagged(p, t) == p > t

Verdict(p, t) == [prob |-> p, flag |-> Flagged(p, t)]

\* return 0.5, False
NeutralVerdict == [prob |-> Neutral, flag |-> FALSE]

PredictGambling(mdl, proba, store, setting) ==
    IF mdl = "none" THEN NeutralVerdict
    ELSE IF proba.kind = "raise" THEN NeutralVerdict
    ELSE LET p == IF proba.kind = "two" THEN proba.p ELSE Neutral
         IN  IF store = "none" THEN Verdict(p, DefaultSensitivity)
             ELSE IF store = "raise" THEN NeutralVerdict
             ELSE IF ~Truthy(setting) THEN Verdict(p, DefaultSensitivity)
             ELSE IF setting.kind = "text" THEN NeutralVerdict
             ELSE Verdict(p, Threshold(setting))

\* One call of model_manager.predict_gambling on the detector as it stands.
PredictCall(proba, store) ==
    /\ last.op = "init"
    /\ last' = [op |-> "predict",
                arg |-> [model |-> model, proba |-> proba, store |-> store,
                         setting |-> settings],
                ret |-> PredictGambling(model, proba, store, settings)]
    /\ UNCHANGED <<lifeVars, blockVars, proxyVars, pollVars, detVars, callVars, statVars,
                   detection_logs, now>>

-----------------------------------------------------------------------------
(* The wall clock                                                          *)

\* The seconds of one day: timedelta keeps (days, seconds, microseconds).
DaySeconds == 86400

\* The clock stops at MaxDays days and MaxOffset seconds.
MaxDays == 1
MaxOffset == 300

\* d seconds pass.
Tick(d) ==
    /\ now + d <= MaxDays * DaySeconds + MaxOffset
    /\ ((now + d) % DaySeconds) <= MaxOffset
    /\ now' = now + d
    /\ last' = [op |-> "tick", arg |-> d, ret |-> TRUE]
    /\ UNCHANGED <<lifeVars, blockVars, proxyVars, pollVars, detVars, callVars, statVars,
                   detection_logs>>

-----------------------------------------------------------------------------
(* NetworkTrafficMonitor._monitor_connections: one connection of a cycle,  *)
(* with _analyze_connection                                                *)

\* The remote address by its leading octets, the name it resolves to (or the
\* literal address when gethostbyaddr fails) and the remote port.
IpClasses == {"127.", "192.168.", "10.", "172.16.", "public"}
Hosts == Domains
Ports == {443}
Connections == [ip : IpClasses, host : Hosts, port : Ports]

\* conn.raddr.ip.startswith('127.') or conn.raddr.ip.startswith('192.168.')
IsLocal(ip) == ip \in {"127.", "192.168."}

\* cache_key = f"{hostname}:{conn.raddr.port}"
CacheKey(conn) == <<conn.host, conn.port>>

\* timedelta.seconds of the difference of two datetimes: the days are a
\* field of their own, .seconds is what is left of the last day.
SecondsField(delta) == delta % DaySeconds

\* the whole difference in seconds (timedelta.total_seconds())
TotalSeconds(delta) == delta

\* 300: 5 minutes
DedupTtl == 300

\* (datetime.now() - last_check).seconds < 300
CheckedRecently(cache, key, t) ==
    key \in DOMAIN cache /\ SecondsField(t - cache[key]) < DedupTtl

\* self.connections_cache[cache_key] = datetime.now()
CachePut(cache, key, t) ==
    [k \in DOMAIN cache \cup {key} |-> IF k = key THEN t ELSE cache[k]]

\* "confidence = 0.0" in place of 0.5
MonitorFallbackZero == [prob |-> 0, flag |-> FALSE]

\* confidence = 0.5; is_gambling = False
MonitorFallback == [prob |-> Neutral, flag |-> FALSE]

ClassifierCalls == {"return", "raise"}

\* How the classification of a candidate went: no predictor, the predictor
\* raised, the detector has no model, predict_proba raised, or a score.
ClassifierStatus(call, proba) ==
    IF ml_predictor = "none" THEN "absent"
    ELSE IF call = "raise" THEN "raised"
    ELSE IF model = "none" THEN "no_model"
    ELSE IF proba.kind = "raise" THEN "proba_raised"
    ELSE "answered"

ClassifierFailed(status) == status # "answered"

\* if self.ml_predictor: try: confidence, is_gambling = self.ml_predictor(url)
\*                        except: pass
MonitorVerdict(call, proba) ==
    IF ml_predictor = "none" \/ call = "raise" THEN MonitorFallback
    ELSE PredictGambling(model, proba, "ok", settings)

\* 0.6
AutoBlockConnectionLow == (6 * Scale) \div 10

\* 0.7 and 0.8
AutoBlockConnection == (7 * Scale) \div 10
AutoBlockProxy == (8 * Scale) \div 10

MaxDetections == 2

\* A row of detection_logs; flow is the proxy flow it was written for (0 for
\* a connection of the poller).
DetectionRow(url, verdict, blocked, method, flow) ==
    [url |-> url, confidence |-> verdict.prob, is_gambling |-> verdict.flag,
     blocked |-> blocked, method |-> method, flow |-> flow]

NoRow == [has |-> FALSE]

AnalyzeResult(t, conn, stage, status, row, blocks, store) ==
    [op |-> "analyze", arg |-> conn, ret |-> stage, at |-> now, thread |-> t,
     store |-> IF blocks THEN store ELSE "unused",
     checked |-> IF CacheKey(conn) \in DOMAIN connections_cache
                 THEN [has |-> TRUE, time |-> connections_cache[CacheKey(conn)]]
                 ELSE [has |-> FALSE, time |-> 0],
     classifier |-> status, emitted |-> row, block |-> blocks,
     pre |-> blocked_domains]

\* Without the try around the loop body a failure would end the cycle.
AfterConnectionUncaught(failed) == IF failed THEN "loop" ELSE "cycle"

\* "except Exception as e: continue": after the handling of one connection,
\* failed or not, the thread goes on with the connections of its cycle.
AfterConnection(failed) == "cycle"

\* The body of the "for conn in connections" loop of poller thread t for one
\* connection with a remote address: log_connection, then
\* _analyze_connection.  Every exception is caught inside the loop body.
PollerAnalyze(t, conn, env) ==
    /\ t \in AlivePollers
    /\ threads[t].pc = "cycle"
    /\ LET key == CacheKey(conn)
           logconn == env.logconn
           logdet == env.logdet
           dbblock == env.dbblock
           status == ClassifierStatus(env.call, env.proba)
           verdict == MonitorVerdict(env.call, env.proba)
           row == DetectionRow(HttpUrl(conn.host), verdict,
                               conn.host \in blocked_domains, "CONNECTION", 0)
           blocks == /\ verdict.flag
                     /\ verdict.prob > AutoBlockConnection
                     /\ conn.host \notin blocked_domains
       IN  IF logconn = "error"
           THEN /\ last' = AnalyzeResult(t, conn, "connection_log_failed", "unused", NoRow, FALSE, dbblock)
                /\ UNCHANGED <<connections_cache, detection_logs, blockVars>>
           ELSE IF IsLocal(conn.ip)
           THEN /\ last' = AnalyzeResult(t, conn, "local", "unused", NoRow, FALSE, dbblock)
                /\ UNCHANGED <<connections_cache, detection_logs, blockVars>>
           ELSE IF CheckedRecently(connections_cache, key, now)
           THEN /\ last' = AnalyzeResult(t, conn, "suppressed", "unused", NoRow, FALSE, dbblock)
                /\ UNCHANGED <<connections_cache, detection_logs, blockVars>>
           ELSE /\ connections_cache' = CachePut(connections_cache, key, now)
                /\ IF logdet = "error"
                   THEN /\ last' = [qualifies |-> blocks] @@
                                    AnalyzeResult(t, conn, "submitted", status, NoRow, FALSE, dbblock)
                        /\ UNCHANGED <<detection_logs, blockVars>>
                   ELSE /\ Len(detection_logs) < MaxDetections
                        /\ detection_logs' = Append(detection_logs, row)
                        /\ last' = AnalyzeResult(t, conn, "submitted", status,
                                                 [has |-> TRUE, row |-> row], blocks, dbblock)
                        /\ IF blocks THEN BlockEffect(conn.host, dbblock)
                           ELSE UNCHANGED blockVars
    /\ threads' = [threads EXCEPT ![t].pc = AfterConnection(env.logconn = "error")]
    /\ UNCHANGED <<monitoring_active, dev_mode, monitor_thread, proxy_thread, stopper,
                   proxyVars, detVars, callVars, statVars, now>>

\* The calls of _analyze_connection that wait for an answer from outside:
\* socket.gethostbyaddr and self.ml_predictor(url).
HangPoints == {"resolving", "classifying"}

\* The handling of one connection by poller thread t in which the call at
\* point never returns.  Neither call is given a timeout, so the thread
\* stays in it; the cache entry of line 136 precedes the classifier call.
PollerCallHangs(t, conn, point) ==
    /\ t \in AlivePollers
    /\ threads[t].pc = "cycle"
    /\ ~IsLocal(conn.ip)
    /\ point = "classifying" =>
          /\ ml_predictor # "none"
          /\ ~CheckedRecently(connections_cache, CacheKey(conn), now)
    /\ connections_cache' =
          IF point = "classifying"
          THEN CachePut(connections_cache, CacheKey(conn), now)
          ELSE connections_cache
    /\ threads' = [threads EXCEPT ![t].pc = point]
    /\ last' = [op |-> "poller_hang", arg |-> conn, ret |-> point, thread |-> t]
    /\ UNCHANGED <<monitoring_active, dev_mode, monitor_thread, proxy_thread, stopper,
                   blockVars, proxyVars, detVars, callVars, statVars, detection_logs,
                   now>>

-----------------------------------------------------------------------------
(* ProxyAddon.request / ProxyAddon.response                                *)

ServingProxies == { t \in AliveProxies : threads[t].pc = "serving" /\ addons[t].made }

\* flow.request.pretty_url of a request to domain d
RequestUrl(d) == HttpUrl(d) \o <<"/">>

BlockedPage == "Site Blocked"

\* request_info stored before the block list is looked at.
StoresRequestInfoFirst(listed, fault) == fault = "ok"

\* Whether request() gets to "flow.request_info = {...}": not when the domain
\* is listed (it returns first), not when reading the request raised.
StoresRequestInfo(listed, fault) == ~listed /\ fault = "ok"

\* stop_monitoring has returned and monitoring was not started again.
StoppedNow == ~monitoring_active /\ stopper = "idle"

\* request(flow) in the addon of proxy thread t, for a request to domain d.
ProxyRequest(f, t, d, fault) ==
    /\ flows[f].stage = "new"
    /\ \A g \in FlowIds : g < f => flows[g].stage # "new"
    /\ t \in ServingProxies
    /\ LET url == RequestUrl(d)
           listed == Netloc(url) \in AddonSet(t)
       IN  /\ flows' = [flows EXCEPT ![f] =
                          [stage |-> "requested", via |-> t, url |-> url,
                           has_info |-> StoresRequestInfo(listed, fault),
                           reply |-> IF listed THEN BlockedPage ELSE "none",
                           listed |-> listed,
                           after_stop |-> StoppedNow]]
           /\ last' = [op |-> "request", arg |-> f, ret |-> ~listed]
    /\ UNCHANGED <<lifeVars, blockVars, addons, traffic_logs, pollVars, detVars, callVars,
                   statVars, detection_logs, now>>

TrafficRow(f) == [flow |-> f, url |-> flows[f].url, dest_ip |-> Netloc(flows[f].url)]

\* The addon's set after self.blocked_domains.add(domain).
AddonAdd(t, domain) ==
    IF addons[t].shared
    THEN /\ blocked_domains' = BlockedAfterBlock(blocked_domains, domain)
         /\ UNCHANGED <<addons, blocked_sites>>
    ELSE /\ addons' = [addons EXCEPT ![t].own = BlockedAfterBlock(@, domain)]
         /\ UNCHANGED blockVars

\* The analysis placed before log_traffic.
ClassifierReachedFirst(logged) == TRUE

\* "if self.ml_predictor:" follows the log_traffic call inside the same try:
\* it is reached only when log_traffic returned.
ClassifierReached(logged) == logged

\* response(flow).  env: whether reading the response raised, the outcome of
\* log_traffic, of the predictor, of predict_proba and of log_detection.
ProxyResponse(f, env) ==
    /\ flows[f].stage = "requested"
    /\ flows' = [flows EXCEPT ![f].stage = "responded"]
    /\ LET t == flows[f].via
           url == flows[f].url
           status == ClassifierStatus(env.call, env.proba)
           verdict == PredictGambling(model, env.proba, "ok", settings)
           row == DetectionRow(url, verdict, FALSE, "GET", f)
           logged == flows[f].has_info /\ env.extract = "ok" /\ env.logtraffic = "ok"
           reached == ClassifierReached(logged)
           scored == reached /\ ml_predictor # "none" /\ env.call = "return"
           written == scored /\ env.logdet = "ok"
           blocks == written /\ verdict.flag /\ verdict.prob > AutoBlockProxy
       IN  /\ traffic_logs' = IF logged THEN Append(traffic_logs, TrafficRow(f))
                              ELSE traffic_logs
           /\ written => Len(detection_logs) < MaxDetections
           /\ detection_logs' = IF written THEN Append(detection_logs, row)
                                ELSE detection_logs
           /\ IF blocks THEN AddonAdd(t, Netloc(url))
              ELSE UNCHANGED <<addons, blockVars>>
           /\ last' = [op |-> "response", arg |-> f, ret |-> logged,
                       classifier |-> IF reached THEN status ELSE "unused",
                       extract |-> env.extract, logtraffic |-> env.logtraffic,
                       emitted |-> IF written THEN [has |-> TRUE, row |-> row] ELSE NoRow,
                       block |-> blocks, persist |-> env.logdet]
    /\ UNCHANGED <<lifeVars, pollVars, detVars, callVars, statVars, now>>

-----------------------------------------------------------------------------
(* NetworkTrafficMonitor.get_real_time_stats                               *)

\* The caller's schedule: "free" callers leave any of Gaps between two
\* invocations, a "secondly" caller invokes once per second.  calls counts
\* the invocations made, due tells that the clock moved since the last one.
FreeDriver == [mode |-> "free", calls |-> 0, due |-> FALSE]
SecondlyDriver == [mode |-> "secondly", calls |-> 0, due |-> FALSE]

MaxCalls == 3
Gaps == {1, 150, 151}
TenMinutes == 10 * 60

\* A rational number of Mbit/s.
Rat(n, d) == [num |-> n, den |-> d]
Zero == Rat(0, 1)
AddRat(a, b) ==
    IF a.den = b.den THEN Rat(a.num + b.num, a.den)
    ELSE Rat(a.num * b.den + b.num * a.den, a.den * b.den)

BitsPerByte == 8
Mebi == 1024 * 1024

\* bits over seconds, without the division by 1024 * 1024
MbpsUnscaled(bytes_diff, time_diff) == Rat(bytes_diff * BitsPerByte, time_diff)

\* (bytes_diff * 8) / (time_diff * 1024 * 1024)
Mbps(bytes_diff, time_diff) == Rat(bytes_diff * BitsPerByte, time_diff * Mebi)

\* total_mbps of an invocation at time t that read the counters sent, recv
TotalMbps(check, t, sent, recv) ==
    IF check.has
    THEN LET time_diff == t - check.time
             bytes_sent_diff == sent - check.bytes_sent
             bytes_recv_diff == recv - check.bytes_recv
         IN  IF time_diff > 0
             THEN AddRat(Mbps(bytes_sent_diff, time_diff),
                         Mbps(bytes_recv_diff, time_diff))
             ELSE Zero
    ELSE Zero

Abs(x) == IF x < 0 THEN -x ELSE x

\* round(total_mbps, 1), in tenths: the tenths nearest to r (both neighbours
\* when r lies halfway between them).
RoundTenths(r) ==
    LET t0 == (10 * r.num) \div r.den
    IN  { t \in {t0, t0 + 1} : 2 * Abs(10 * r.num - t * r.den) <= r.den }

BandwidthLogInterval == 300

\* A sample on every invocation.
LogDueAlways(marker, t) == TRUE

\* not hasattr(self, '_last_bandwidth_log') or (current_time - it) > 300
LogDue(marker, t) == ~marker.has \/ (t - marker.time) > BandwidthLogInterval

BandwidthRow(t, sent, recv, mbps) ==
    [at |-> t, bytes_sent |-> sent, bytes_recv |-> recv, bandwidth_mbps |-> mbps]

StatsOutcomes == {"ok", "psutil_error", "log_bandwidth_error", "get_connections_error"}

\* The previous sample left as it was.
NetCheckKept(prev, t, sent, recv) == prev

\* self._last_net_check = {'time': current_time, 'bytes_sent': ..., 'bytes_recv': ...}
NetCheck(prev, t, sent, recv) ==
    [has |-> TRUE, time |-> t, bytes_sent |-> sent, bytes_recv |-> recv]

\* get_real_time_stats(): the counters read are dsent and drecv above the
\* previous reading; outcome tells which call, if any, raised.
HourSeconds == 60 * 60

\* len([c for c in recent_connections if c.get('timestamp') and
\*      (datetime.now() - datetime.fromisoformat(c['timestamp'])).seconds < 3600])
\* over the timestamps get_connections returned, clock and table in one zone.
ConnectionAttempts(rows, t) ==
    Cardinality({ i \in DOMAIN rows : SecondsField(t - rows[i]) < HourSeconds })

\* get_real_time_stats(); rows are the timestamps of the connections that
\* get_connections(limit=1000) returns, newest first.
GetRealTimeStatsWith(dsent, drecv, outcome, rows) ==
    LET prev == last_net_check
        sent == (IF prev.has THEN prev.bytes_sent ELSE 0) + dsent
        recv == (IF prev.has THEN prev.bytes_recv ELSE 0) + drecv
        total_mbps == TotalMbps(prev, now, sent, recv)
        read == outcome # "psutil_error"
        due == read /\ LogDue(last_bandwidth_log, now)
        logged == due /\ outcome # "log_bandwidth_error"
        completed == outcome = "ok" \/ (outcome = "log_bandwidth_error" /\ ~due)
    IN  /\ last_net_check' = IF read THEN NetCheck(prev, now, sent, recv)
                              ELSE last_net_check
        /\ bandwidth_history' =
              IF logged THEN Append(bandwidth_history,
                                    BandwidthRow(now, sent, recv, total_mbps))
              ELSE bandwidth_history
        /\ last_bandwidth_log' =
              IF logged THEN [has |-> TRUE, time |-> now] ELSE last_bandwidth_log
        /\ \E tenths \in (IF completed THEN RoundTenths(total_mbps) ELSE {0}) :
              last' = [op |-> "stats", arg |-> <<dsent, drecv, outcome>>,
                       ret |-> IF completed THEN "ok" ELSE "error",
                       prev |-> prev, at |-> now, total_mbps |-> total_mbps,
                       bandwidth_mbps |-> tenths, logged |-> logged,
                       connections |-> rows,
                       connection_attempts |->
                           IF completed THEN ConnectionAttempts(rows, now) ELSE 0]
        /\ driver' = [driver EXCEPT !.calls = @ + 1, !.due = FALSE]
        /\ UNCHANGED <<lifeVars, blockVars, proxyVars, pollVars, detVars, callVars,
                       detection_logs, now>>

\* get_real_time_stats() while no connection has been logged.
GetRealTimeStats(dsent, drecv, outcome) ==
    GetRealTimeStatsWith(dsent, drecv, outcome, <<>>)

\* get_real_time_stats statement by statement, for callers in different
\* request threads and without faults.  First the counters are read, the
\* throughput is computed, _last_net_check is replaced and the throttle is
\* tested against _last_bandwidth_log ...
StatsRead(c) ==
    /\ requests[c].pc \in {"idle", "done"}
    /\ LET prev == last_net_check
           sent == IF prev.has THEN prev.bytes_sent ELSE 0
           recv == IF prev.has THEN prev.bytes_recv ELSE 0
           due == LogDue(last_bandwidth_log, now)
       IN  /\ last_net_check' = [has |-> TRUE, time |-> now, bytes_sent |-> sent,
                                 bytes_recv |-> recv]
           /\ requests' = [requests EXCEPT ![c] =
                             [op |-> "stats", domain |-> <<>>,
                              pc |-> IF due THEN "log" ELSE "done", ret |-> TRUE,
                              row |-> BandwidthRow(now, sent, recv,
                                                   TotalMbps(prev, now, sent, recv))]]
           /\ last' = [op |-> "stats_read", arg |-> c, ret |-> due]
    /\ UNCHANGED <<lifeVars, blockVars, proxyVars, pollVars, detVars,
                   last_bandwidth_log, bandwidth_history, driver, detection_logs, now>>

\* ... then db_manager.log_bandwidth(...) writes the sample ...
StatsLog(c) ==
    /\ requests[c].pc = "log"
    /\ bandwidth_history' = Append(bandwidth_history, requests[c].row)
    /\ requests' = [requests EXCEPT ![c].pc = "mark"]
    /\ last' = [op |-> "stats_log", arg |-> c, ret |-> TRUE]
    /\ UNCHANGED <<lifeVars, blockVars, proxyVars, pollVars, detVars, last_net_check,
                   last_bandwidth_log, driver, detection_logs, now>>

\* ... then self._last_bandwidth_log = current_time, and the call returns.
StatsMark(c) ==
    /\ requests[c].pc = "mark"
    /\ last_bandwidth_log' = [has |-> TRUE, time |-> requests[c].row.at]
    /\ requests' = [requests EXCEPT ![c].pc = "done"]
    /\ last' = [op |-> "stats_mark", arg |-> c, ret |-> TRUE]
    /\ UNCHANGED <<lifeVars, blockVars, proxyVars, pollVars, detVars, last_net_check,
                   bandwidth_history, driver, detection_logs, now>>

\* Wall-clock time passing between two invocations.
Elapse(d) ==
    /\ driver.calls >= 1
    /\ ~driver.due
    /\ now' = now + d
    /\ driver' = [driver EXCEPT !.due = TRUE]
    /\ last' = [op |-> "elapse", arg |-> d, ret |-> TRUE]
    /\ UNCHANGED <<lifeVars, blockVars, proxyVars, pollVars, detVars, callVars,
                   last_net_check, last_bandwidth_log, bandwidth_history,
                   detection_logs>>

-----------------------------------------------------------------------------
(* NetworkTrafficMonitor.get_bandwidth_history                             *)


Min(a, b) == IF a < b THEN a ELSE b

\* DatabaseManager.get_bandwidth_history: the rows younger than hours
RecentBandwidth(table, hours, t) ==
    SelectSeq(table, LAMBDA r : r.at > t - hours * HourSeconds)

\* What random.uniform(0.5, 1.5) (in tenths) and random.randint(5, 25) gave;
\* one draw of each stands for all entries of one call.
Variations == {5, 10, 15}
ConnectionCounts == {5, 25}
RandomDraws == [variation : Variations, connections : ConnectionCounts]

\* The i-th generated entry (i from 0): bandwidth_mbps is round(usage, 1) in
\* tenths, usage = (20 + (i % 12) * 5) * variation.
SampleEntry(hours, i, t, rnd) ==
    [timestamp |-> t - (hours - i) * HourSeconds,
     bandwidth_mbps |-> (20 + (i % 12) * 5) * rnd.variation,
     active_connections |-> rnd.connections]

\* for i in range(min(hours, 24))
SampleSeries(hours, t, rnd) ==
    [k \in 1..Min(hours, 24) |-> SampleEntry(hours, k - 1, t, rnd)]

\* get_bandwidth_history(hours): the stored rows, generated entries when there
\* are none, [] when the query raised.
GetBandwidthHistory(hours, db, rnd) ==
    LET history == RecentBandwidth(bandwidth_history, hours, now)
        generated == db = "ok" /\ history = <<>>
        ret == IF db = "error" THEN <<>>
               ELSE IF generated THEN SampleSeries(hours, now, rnd)
               ELSE history
    IN  /\ last' = [op |-> "history", arg |-> hours, ret |-> ret,
                    generated |-> generated,
                    prev |-> IF last.op = "history"
                             THEN [op |-> last.op, arg |-> last.arg, ret |-> last.ret,
                                   generated |-> last.generated]
                             ELSE [op |-> last.op, arg |-> 0, ret |-> <<>>,
                                   generated |-> FALSE]]
        /\ UNCHANGED <<lifeVars, blockVars, proxyVars, pollVars, detVars, callVars, statVars,
                       detection_logs, now>>

-----------------------------------------------------------------------------
(* Initial state: a fresh database, the monitor just constructed.          *)

InitBase ==
    /\ monitoring_active = FALSE
    /\ dev_mode = FALSE
    /\ monitor_thread = 0
    /\ proxy_thread = 0
    /\ threads = [t \in Tids |-> NoThread]
    /\ stopper = "idle"
    /\ blocked_sites = <<>>
    /\ blocked_domains = LoadBlockedSites(blocked_sites)
    /\ addons = [t \in Tids |-> NoAddon]
    /\ flows = [f \in FlowIds |-> NoFlow]
    /\ traffic_logs = <<>>
    /\ detection_logs = <<>>
    /\ now = 0
    /\ connections_cache = <<>>
    /\ ml_predictor = "predict_gambling"
    /\ model = "loaded"
    /\ settings = DefaultSetting
    /\ last_net_check = [has |-> FALSE]
    /\ last_bandwidth_log = [has |-> FALSE]
    /\ bandwidth_history = <<>>
    /\ driver = FreeDriver
    /\ requests = [c \in RequestIds |-> NoRequest]
    /\ last = NoOp

-----------------------------------------------------------------------------
(* The block list on its own: manual block / unblock requests and restarts *)

NextBlocklist ==
    \/ \E d \in Domains, db \in DbOutcomes, h \in HostsOutcomes : BlockDomain(d, db, h)
    \/ \E d \in Domains, db \in DbOutcomes, h \in HostsOutcomes : UnblockDomain(d, db, h)
    \/ Restart

SpecBlocklist == InitBase /\ [][NextBlocklist]_vars

\* C1: immediately after block_domain(D) returned success D is in the in-memory
\* set, and immediately after unblock_domain(D) returned success it is not.
C1_BlockUnblockRoundTrip ==
    /\ (last.op = "block" /\ last.ret) => last.arg \in blocked_domains
    /\ (last.op = "unblock" /\ last.ret) => last.arg \notin blocked_domains

\* A successful unblock of D right after a successful block of D.
C1_Witness ==
    /\ last.op = "unblock" /\ last.ret
    /\ last.prev = [op |-> "block", arg |-> last.arg, ret |-> TRUE]
    /\ last.arg \in last.pre
    /\ last.arg \notin blocked_domains

SecondBlock ==
    /\ last.op = "block"
    /\ last.prev = [op |-> "block", arg |-> last.arg, ret |-> TRUE]

\* C2: when block_domain(D) is called right after a successful block_domain(D),
\* the second call leaves the in-memory set as it was and the store never holds
\* two entries for D; when its store write and hosts-file step complete, it
\* returns success and the store holds exactly one entry for D.
C2_BlockTwiceIdempotent ==
    SecondBlock =>
        /\ blocked_domains = last.pre
        /\ CountUrl(blocked_sites, HttpUrl(last.arg)) <= 1
        /\ (last.db = "ok" /\ last.hosts # "oserror") =>
               (last.ret /\ CountUrl(blocked_sites, HttpUrl(last.arg)) = 1)

\* The second of two blocks of D, both stored: one entry.
C2_Witness ==
    /\ SecondBlock
    /\ last.db = "ok" /\ last.hosts = "ok" /\ last.ret
    /\ CountUrl(blocked_sites, HttpUrl(last.arg)) = 1
    /\ Len(blocked_sites) = 2

\* C11: when the hosts-file write of block_domain(D) fails with a permission
\* error, the call still returns success, D is in the in-memory set, and D is
\* in the persisted store when the store write itself went through.
C11_PermissionErrorStillBlocks ==
    (last.op = "block" /\ last.hosts = "permission") =>
        /\ last.ret
        /\ last.arg \in blocked_domains
        /\ last.db = "ok" => HasUrl(blocked_sites, HttpUrl(last.arg))

\* A block whose hosts-file write was refused, stored in both other layers.
C11_Witness ==
    /\ last.op = "block" /\ last.hosts = "permission" /\ last.db = "ok"
    /\ last.ret
    /\ last.arg \notin last.pre
    /\ last.arg \in blocked_domains
    /\ HasUrl(blocked_sites, HttpUrl(last.arg))

\* The domains that have a row in blocked_sites.
PersistedDomains == { d \in Domains : HasUrl(blocked_sites, HttpUrl(d)) }

\* C14: right after a restart the in-memory set is exactly the set of domains
\* of the persisted entries; it contains D when the restart followed a
\* block_domain(D) whose store write went through, and lacks D when it
\* followed an unblock_domain(D) whose store delete went through.
C14_LoadRebuildsFromStore ==
    last.op = "restart" =>
        /\ blocked_domains = PersistedDomains
        /\ \A i \in 1..Len(blocked_sites) : Netloc(blocked_sites[i].url) \in blocked_domains
        /\ (last.prev.op = "block" /\ last.prev.db = "ok") =>
               last.prev.arg \in blocked_domains
        /\ (last.prev.op = "unblock" /\ last.prev.db = "ok") =>
               last.prev.arg \notin blocked_domains

\* A restart right after block_domain(D), D loaded back.
C14_Witness ==
    /\ last.op = "restart"
    /\ last.prev.op = "block" /\ last.prev.db = "ok" /\ last.prev.ret
    /\ last.prev.arg \in blocked_domains
    /\ Cardinality(blocked_domains) = 1

\* What a fully enforced block or unblock returns.
EnforcedResult == BlockReturns("ok")

\* C12: a block or unblock whose hosts-file write failed returns something
\* else than a fully enforced one does.
C12_DegradedEnforcementIsSurfaced ==
    (last.op \in {"block", "unblock"} /\ last.hosts # "ok") =>
        last.ret # EnforcedResult

-----------------------------------------------------------------------------
(* The block list with domains that differ in letter case only             *)

CaseDomains == { <<"a">>, <<"A">> }

NextCase ==
    \/ \E d \in CaseDomains, db \in DbOutcomes, h \in HostsOutcomes : BlockDomain(d, db, h)
    \/ \E d \in CaseDomains, db \in DbOutcomes, h \in HostsOutcomes : UnblockDomain(d, db, h)
    \/ Restart

SpecCase == InitBase /\ [][NextCase]_vars

\* str.lower() on the letters in use
Lower(s) == [i \in DOMAIN s |-> IF s[i] = "A" THEN "a" ELSE s[i]]

\* C34: every domain in the in-memory set is in lower case, no two entries
\* differ in letter case only, and after a successful block_domain(D) the
\* lower-cased spelling of D is in the set.
C34_BlockedSetIsLowerCaseAndUnique ==
    /\ \A d \in blocked_domains : Lower(d) = d
    /\ \A d, e \in blocked_domains : Lower(d) = Lower(e) => d = e
    /\ (last.op = "block" /\ last.ret) => Lower(last.arg) \in blocked_domains

\* C38: when block_domain(D) returns False the call has left the set of
\* blocked domains as it found it.
C38_FailedBlockLeavesBlocklistUnchanged ==
    (last.op = "block" /\ ~last.ret) => blocked_domains = last.pre

-----------------------------------------------------------------------------
(* connection_attempts over logged connections of every age               *)

AttemptGaps == {150, DaySeconds}

\* The times the clock can show.
ClockValues ==
    { d * DaySeconds + o : d \in 0..MaxDays, o \in { g \in 0..MaxOffset : g % 150 = 0 } }

MaxRows == 2

\* The timestamps a connection logged up to t can carry.
Timestamps(t) == { u \in ClockValues : u <= t }

\* What get_connections can return: at most MaxRows timestamps, the newest
\* first (ORDER BY timestamp DESC).
ConnectionRows(t) ==
    { r \in UNION { [1..n -> Timestamps(t)] : n \in 0..MaxRows } :
        \A i, j \in DOMAIN r : i < j => r[i] >= r[j] }

\* The first call of get_real_time_stats since the monitor was created, at
\* any time of the clock.
NextAttempts ==
    \/ /\ driver.calls = 0
       /\ \E rows \in ConnectionRows(now), o \in {"ok", "get_connections_error"} :
             GetRealTimeStatsWith(0, 0, o, rows)
    \/ \E d \in AttemptGaps : Tick(d)

SpecAttempts == InitBase /\ [][NextAttempts]_vars

\* C39: connection_attempts of a completed get_real_time_stats is the number
\* of returned connections logged less than one hour before the call; older
\* ones, those older than a day included, are not counted.
C39_AttemptsCountLastHourOnly ==
    (last.op = "stats" /\ last.ret = "ok") =>
        last.connection_attempts =
            Cardinality({ i \in DOMAIN last.connections :
                            TotalSeconds(last.at - last.connections[i]) < HourSeconds })

-----------------------------------------------------------------------------
(* DatabaseManager.lock and the threads that call the store                *)

\* Operations of the store called from the poller, the proxy and the request
\* threads; each body is "with self.lock: ...".
DbOps == {"add_blocked_site", "remove_blocked_site", "get_blocked_sites"}

\* The callers that hold the lock: those inside a with-block, among them one
\* that called a locked method from inside it.
Holders == { c \in RequestIds : requests[c].pc \in {"inside", "reacquire"} }

\* An acquire that never waits.
LockAcquirableAlways(holders) == TRUE

\* threading.Lock(): acquire succeeds only while nobody holds the lock, the
\* acquiring thread included.
LockAcquirable(holders) == holders = {}

\* Whether the body of the operation calls a locked method of the same
\* object: none of them does.
CallsLocked(op) == FALSE

\* add_blocked_site and remove_blocked_site catch every exception inside the
\* with-block; the other operations let it leave the block.
DbRaises(op, outcome) ==
    outcome = "error" /\ op \notin {"add_blocked_site", "remove_blocked_site"}

\* A thread calls an operation: it reaches "with self.lock".
DbCall(c, op, domain) ==
    /\ requests[c].pc \in {"idle", "done", "raised"}
    /\ requests' = [requests EXCEPT ![c] =
                      [op |-> op, domain |-> domain, pc |-> "acquire", ret |-> TRUE]]
    /\ last' = [op |-> "db_call", arg |-> c, ret |-> TRUE]
    /\ UNCHANGED <<lifeVars, blockVars, proxyVars, pollVars, detVars, statVars,
                   detection_logs, now>>

\* self.lock.__enter__()
DbAcquire(c) ==
    /\ requests[c].pc = "acquire"
    /\ LockAcquirable(Holders)
    /\ requests' = [requests EXCEPT ![c].pc = "inside"]
    /\ last' = [op |-> "db_acquire", arg |-> c, ret |-> TRUE]
    /\ UNCHANGED <<lifeVars, blockVars, proxyVars, pollVars, detVars, statVars,
                   detection_logs, now>>

\* The body of the with-block and self.lock.__exit__(): the statement runs
\* with the outcome the database gives, and the block is left by return or by
\* the exception.
DbLeave(c, outcome) ==
    /\ requests[c].pc = "inside"
    /\ blocked_sites' =
          IF requests[c].op = "add_blocked_site"
          THEN AddBlockedSite(blocked_sites, HttpUrl(requests[c].domain), BlockReason, outcome)
          ELSE IF requests[c].op = "remove_blocked_site"
          THEN RemoveBlockedSite(blocked_sites, HttpUrl(requests[c].domain), outcome)
          ELSE blocked_sites
    /\ requests' = [requests EXCEPT
                      ![c].pc = IF CallsLocked(requests[c].op) THEN "reacquire"
                                ELSE IF DbRaises(requests[c].op, outcome) THEN "raised"
                                ELSE "done",
                      ![c].ret = outcome = "ok"]
    /\ last' = [op |-> "db_leave", arg |-> c, ret |-> outcome = "ok",
                held |-> Holders]
    /\ UNCHANGED <<lifeVars, blocked_domains, proxyVars, pollVars, detVars, statVars,
                   detection_logs, now>>

NextDbLock ==
    \/ \E c \in RequestIds, op \in DbOps, d \in Domains : DbCall(c, op, d)
    \/ \E c \in RequestIds : DbAcquire(c)
    \/ \E c \in RequestIds, outcome \in DbOutcomes : DbLeave(c, outcome)

SpecDbLock == InitBase /\ [][NextDbLock]_vars

\* C36: at most one thread is inside an operation of the store; a thread
\* that returned from an operation or left it by an exception does not hold
\* the lock; no thread waits for the lock while holding it; and whenever a
\* thread waits, the lock is free or its holder is running its body.
C36_StoreIsSerializedWithoutDeadlock ==
    /\ Cardinality(Holders) <= 1
    /\ \A c \in RequestIds : requests[c].pc \in {"done", "raised"} => c \notin Holders
    /\ \A c \in RequestIds : requests[c].pc # "reacquire"
    /\ (\E c \in RequestIds : requests[c].pc = "acquire") =>
          (Holders = {} \/ \E h \in Holders : requests[h].pc = "inside")

\* One thread has left get_blocked_sites by an exception and another thread,
\* which asked for the lock meanwhile, is inside its operation.
C36_Witness ==
    \E c, e \in RequestIds :
        /\ requests[c].pc = "raised" /\ requests[c].op = "get_blocked_sites"
        /\ requests[e].pc = "inside"
        /\ last.op = "db_acquire" /\ last.arg = e

-----------------------------------------------------------------------------
(* Unblocking over hosts files of every content                            *)

\* The domains unblocked: "a", and "ab", which contains it.
FileDomains == { <<"a">>, <<"a", "b">> }

\* Lines a hosts file may hold: the entries of the domains, the www entry of
\* "a", and the entry of a host that contains neither domain.
HostsLines ==
    { HostsEntry(d) : d \in FileDomains }
        \cup { HostsWwwEntry(<<"a">>), HostsEntry(<<"b">>) }

MaxHostsLines == 3

HostsFiles == UNION { [1..n -> HostsLines] : n \in 0..MaxHostsLines }

NextHosts ==
    \/ BlockDomain(<<"a">>, "ok", "ok")
    \/ \E d \in FileDomains, db \in DbOutcomes, file \in HostsFiles :
          UnblockDomainOn(d, db, file)

SpecHosts == InitBase /\ [][NextHosts]_vars

\* The positions of the lines that do not contain the domain.
KeptLines == { i \in 1..Len(last.file) : ~Contains(last.file[i], last.arg) }

\* C35: the file unblock_domain(D) writes holds no line containing D, and
\* holds the lines of the old file that do not contain D, each unchanged, all
\* of them, in their old order.
C35_RewriteDropsExactlyMatchingLines ==
    (last.op = "unblock" /\ last.hosts = "ok") =>
        /\ \A k \in 1..Len(last.written) : ~Contains(last.written[k], last.arg)
        /\ Len(last.written) = Cardinality(KeptLines)
        /\ \A k \in 1..Len(last.written) :
              \E i \in KeptLines :
                  /\ Cardinality({ j \in KeptLines : j <= i }) = k
                  /\ last.written[k] = last.file[i]

\* unblock_domain("a") on a file with the www entry of a, the entry of ab
\* and the entry of b: the entry of b alone is left.
C35_Witness ==
    /\ last.op = "unblock"
    /\ last.arg = <<"a">>
    /\ last.file = << HostsWwwEntry(<<"a">>), HostsEntry(<<"a", "b">>),
                      HostsEntry(<<"b">>) >>
    /\ last.written = << HostsEntry(<<"b">>) >>

-----------------------------------------------------------------------------
(* The lifecycle controller and its worker threads                         *)

NextLifecycle ==
    \/ \E dev \in BOOLEAN : StartMonitoring(dev)
    \/ StopBegin
    \/ StopReturn
    \/ \E t \in Tids : PollerLoopCheck(t)
    \/ \E t \in Tids : PollerCycleEnd(t)
    \/ \E t \in Tids, o \in ProxyOutcomes : ProxyStartup(t, o)

SpecLifecycle == InitBase /\ [][NextLifecycle]_vars

\* C6: immediately after start_monitoring(dev_mode) returned success, the
\* poller it spawned is running; with dev_mode false no proxy thread is
\* running, with dev_mode true one is.
C6_StartRunsTheWorkersOfItsMode ==
    (last.op = "start" /\ last.ret) =>
        /\ monitor_thread \in AlivePollers
        /\ (last.arg => AliveProxies # {})
        /\ (~last.arg => AliveProxies = {})

\* C7: a start_monitoring call made while monitoring is active returns
\* failure and changes neither the flag, dev_mode, the thread handles nor the
\* threads.
C7_StartWhileRunningIsNoOp ==
    [][(monitoring_active /\ last'.op = "start") =>
           (last'.ret = FALSE /\ UNCHANGED lifeVars)]_vars

\* A refused start with both workers alive.
C7_Witness ==
    /\ last.op = "start" /\ ~last.ret
    /\ monitoring_active
    /\ AlivePollers # {} /\ AliveProxies # {}

\* C22: at every moment at most one poller thread is alive, whatever the
\* sequence of start_monitoring and stop_monitoring calls, also when a stop
\* returned on the join timeout with its poller still running.
C22_AtMostOnePollerAlive == Cardinality(AlivePollers) <= 1

\* The callers' and workers' steps as before; a stop_monitoring call that can
\* return does return (each join gives up after its timeout).
SpecLifecycleFair == InitBase /\ [][NextLifecycle]_vars /\ WF_vars(StopReturn)

-----------------------------------------------------------------------------
(* The detector as a function of its model, the stored sensitivity and the *)
(* classifier's answer                                                     *)

InitDetect ==
    /\ monitoring_active = FALSE
    /\ dev_mode = FALSE
    /\ monitor_thread = 0
    /\ proxy_thread = 0
    /\ threads = [t \in Tids |-> NoThread]
    /\ stopper = "idle"
    /\ blocked_sites = <<>>
    /\ blocked_domains = {}
    /\ addons = [t \in Tids |-> NoAddon]
    /\ flows = [f \in FlowIds |-> NoFlow]
    /\ traffic_logs = <<>>
    /\ detection_logs = <<>>
    /\ now = 0
    /\ connections_cache = <<>>
    /\ ml_predictor = "predict_gambling"
    /\ model \in {"none", "loaded"}
    /\ settings \in SettingValues
    /\ last_net_check = [has |-> FALSE]
    /\ last_bandwidth_log = [has |-> FALSE]
    /\ bandwidth_history = <<>>
    /\ driver = FreeDriver
    /\ requests = [c \in RequestIds |-> NoRequest]
    /\ last = NoOp

NextDetect == \E proba \in ProbaOutcomes, store \in StoreOutcomes : PredictCall(proba, store)

SpecDetect == InitDetect /\ [][NextDetect]_vars

\* A call in which the model is loaded, predict_proba returns p and the store
\* answers with an integer sensitivity.
ScoredCall ==
    /\ last.op = "predict"
    /\ last.arg.model = "loaded"
    /\ last.arg.proba.kind = "two"
    /\ last.arg.store = "ok"
    /\ last.arg.setting.kind = "number"

\* C3: with probability p and threshold t = sensitivity/100 the verdict
\* carries p and is flagged exactly when p > t; p = t is not flagged.
C3_FlaggedIffAboveThreshold ==
    ScoredCall =>
        /\ last.ret.prob = last.arg.proba.p
        /\ last.ret.flag <=>
              (last.arg.proba.p * PercentScale > last.arg.setting.value * Scale)

\* p = 0.70 against sensitivity 70: not flagged.
C3_Witness ==
    /\ ScoredCall
    /\ last.arg.setting.value = 70
    /\ last.arg.proba.p * PercentScale = last.arg.setting.value * Scale
    /\ ~last.ret.flag

\* A call that got a probability from the classifier while the stored
\* sensitivity is absent, empty or not a number.
UnusableSettingCall ==
    /\ last.op = "predict"
    /\ last.arg.model = "loaded"
    /\ last.arg.proba.kind = "two"
    /\ last.arg.store = "ok"
    /\ last.arg.setting.kind \in {"absent", "empty", "text"}

\* C20: with the sensitivity absent or unparseable the threshold is 0.5: the
\* returned probability is the classifier's p and the verdict is flagged iff
\* p > 0.5.
C20_UnusableSettingDefaultsToHalf ==
    UnusableSettingCall =>
        /\ last.ret.prob = last.arg.proba.p
        /\ last.ret.flag <=> (2 * last.arg.proba.p > Scale)

-----------------------------------------------------------------------------
(* The connection poller: its loop, the dedup cache under a clock, the     *)
(* classification of the candidates and the blocks they cause              *)

PollSteps == {150, DaySeconds}
PollConnections == [ip : {"127.", "public"}, host : Hosts, port : Ports]
ProbaRaises == [kind |-> "raise", p |-> 0]
PollProbas == {ProbaRaises}
                 \cup {[kind |-> "two", p |-> p] : p \in {Neutral, AutoBlockConnection + 1}}

\* What the environment does during one connection's handling: the outcome
\* of log_connection, of the predictor call, of predict_proba, of
\* log_detection and of add_blocked_site.  Outcomes of steps that are not
\* reached are left at their first value.
PollEnvs ==
    { e \in [logconn : DbOutcomes, call : ClassifierCalls, proba : PollProbas,
             logdet : DbOutcomes, dbblock : DbOutcomes] :
        /\ e.logconn = "error" =>
              (e.call = "return" /\ e.proba = ProbaRaises /\ e.logdet = "ok")
        /\ e.call = "raise" => e.proba = ProbaRaises
        /\ e.dbblock = "error" =>
              (e.logconn = "ok" /\ e.call = "return" /\ e.logdet = "ok"
               /\ e.proba.kind = "two" /\ e.proba.p > AutoBlockConnection) }

InitPoll ==
    /\ monitoring_active = FALSE
    /\ dev_mode = FALSE
    /\ monitor_thread = 0
    /\ proxy_thread = 0
    /\ threads = [t \in Tids |-> NoThread]
    /\ stopper = "idle"
    /\ blocked_sites = <<>>
    /\ blocked_domains = {}
    /\ addons = [t \in Tids |-> NoAddon]
    /\ flows = [f \in FlowIds |-> NoFlow]
    /\ traffic_logs = <<>>
    /\ detection_logs = <<>>
    /\ now = 0
    /\ connections_cache = <<>>
    /\ ml_predictor \in {"none", "predict_gambling"}
    /\ model \in {"none", "loaded"}
    /\ (ml_predictor = "none" => model = "none")
    /\ settings = DefaultSetting
    /\ last_net_check = [has |-> FALSE]
    /\ last_bandwidth_log = [has |-> FALSE]
    /\ bandwidth_history = <<>>
    /\ driver = FreeDriver
    /\ requests = [c \in RequestIds |-> NoRequest]
    /\ last = NoOp

NextPoll ==
    \/ \E d \in PollSteps : Tick(d)
    \/ /\ Spawned = {}
       /\ StartMonitoring(FALSE)
    \/ \E t \in AlivePollers : PollerLoopCheck(t)
    \/ \E t \in AlivePollers : PollerCycleEnd(t)
    \/ \E t \in AlivePollers, conn \in PollConnections, env \in PollEnvs :
          PollerAnalyze(t, conn, env)

SpecPoll == InitPoll /\ [][NextPoll]_vars

\* A candidate of the poller that went to classification.
Submitted == last.op = "analyze" /\ last.ret = "submitted"

\* C4: when the classifier is absent or raises while a connection-origin
\* candidate is evaluated, the verdict that is emitted carries probability
\* 0.5 and is not flagged, no block is issued, and the poller thread is
\* still in its cycle (no exception left the evaluation).
C4_ClassifierFailureIsNeutral ==
    (Submitted /\ ClassifierFailed(last.classifier)) =>
        /\ last.emitted.has =>
              /\ last.emitted.row.confidence * 2 = Scale
              /\ ~last.emitted.row.is_gambling
              /\ detection_logs[Len(detection_logs)] = last.emitted.row
        /\ ~last.block
        /\ blocked_domains = last.pre
        /\ \E t \in AlivePollers : threads[t].pc = "cycle"

\* A verdict emitted although the predictor raised.
C4_Witness ==
    /\ Submitted
    /\ last.classifier = "raised"
    /\ last.emitted.has
    /\ last.emitted.row.confidence = Neutral

\* C5: a sighting of a (hostname, port) key that was submitted at time T is
\* suppressed when it comes before T + 5 minutes and is submitted again when
\* it comes at or after T + 5 minutes, however much later.
C5_DedupWindow ==
    (last.op = "analyze" /\ last.ret \in {"suppressed", "submitted"} /\ last.checked.has) =>
        ((last.ret = "suppressed") <=> (last.at - last.checked.time < DedupTtl))

-----------------------------------------------------------------------------
(* The poller of one session that is stopped while a cycle is under way    *)

\* One remote host; every step of a connection's handling may fail, and a
\* score is one that leads to a block.
StopEnvs == { e \in PollEnvs : e.proba.kind = "two" => e.proba.p > AutoBlockConnection }

StopConnections == [ip : {"public"}, host : {<<"a">>}, port : Ports]

NextPollStop ==
    \/ StartMonitoring(FALSE)
    \/ \E t \in AlivePollers : PollerLoopCheck(t)
    \/ \E t \in AlivePollers : PollerCycleEnd(t)
    \/ \E t \in AlivePollers : PollerEnumerationFails(t)
    \/ \E t \in AlivePollers, conn \in StopConnections, env \in StopEnvs :
          PollerAnalyze(t, conn, env)
    \/ StopBegin
    \/ StopReturn

SpecPollStop == InitBase /\ [][NextPollStop]_vars

\* C24: a connection whose handling starts after stop_monitoring() returned
\* is not submitted to the classifier and causes no block.
C24_NoSubmissionAfterStop ==
    (last.op = "analyze" /\ StoppedNow) => (last.ret # "submitted" /\ ~last.block)

\* The same steps, where a poller that can test its flag, or can end its
\* cycle (the list of connections is finite and each one's handling ends),
\* eventually does.
SpecPollStopFair ==
    /\ InitBase
    /\ [][NextPollStop]_vars
    /\ \A t \in Tids : WF_vars(PollerLoopCheck(t)) /\ WF_vars(PollerCycleEnd(t))

\* C26: a poller thread ends only in a step in which monitoring_active is
\* False, whatever failed before; and if monitoring_active becomes False and
\* stays False, eventually no poller thread is alive.
C26_PollerExitsIffStopped ==
    /\ [][\A t \in Tids : (t \in AlivePollers /\ ~threads'[t].alive) => ~monitoring_active]_vars
    /\ (<>[](~monitoring_active)) => <>[](AlivePollers = {})

\* A poller has just left its loop: stop_monitoring cleared the flag during
\* its cycle.
C26_Witness ==
    /\ last.op = "poller_loop" /\ ~last.ret
    /\ threads[last.arg].pc = "done"
    /\ ~monitoring_active

\* The handling of a connection in which a step failed: log_connection, the
\* classifier, log_detection or the store write of the block.
ConnectionFailed ==
    /\ last.op = "analyze"
    /\ \/ last.ret = "connection_log_failed"
       \/ /\ last.ret = "submitted"
          /\ (ClassifierFailed(last.classifier) \/ ~last.emitted.has
                \/ last.store = "error")

\* C27: after a connection's handling in which a step failed, the poller is
\* alive and still inside its cycle, where the remaining connections are
\* handled; after an exception of the enumeration the poller has slept the
\* longer back-off and is alive at its loop test.
C27_FailuresDoNotEndCycleOrLoop ==
    /\ ConnectionFailed =>
          (threads[last.thread].alive /\ threads[last.thread].pc = "cycle")
    /\ last.op = "poller_backoff" =>
          /\ threads[last.arg].alive /\ threads[last.arg].pc = "loop"
          /\ last.sleep > CycleSleep

\* log_connection raised for a connection, after an earlier connection of
\* the session had been submitted.
C27_Witness ==
    /\ ConnectionFailed
    /\ last.ret = "connection_log_failed"
    /\ threads[last.thread].pc = "cycle"
    /\ detection_logs # <<>>

-----------------------------------------------------------------------------
(* The poller with name lookups and classifier calls that never return     *)

NextPollHang ==
    \/ NextPollStop
    \/ \E t \in AlivePollers, conn \in StopConnections, point \in HangPoints :
          PollerCallHangs(t, conn, point)

\* Every step a poller can take is eventually taken.
SpecPollHang ==
    /\ InitBase
    /\ [][NextPollHang]_vars
    /\ \A t \in Tids : WF_vars(PollerLoopCheck(t)) /\ WF_vars(PollerCycleEnd(t))

\* C28: a poller that waits in a name lookup or a classifier call eventually
\* leaves it and goes on with its cycle.
C28_HungCallIsGivenUp ==
    \A t \in Tids : (threads[t].pc \in HangPoints) ~> (threads[t].pc \notin HangPoints)

-----------------------------------------------------------------------------
(* The poller over remote addresses of every class                         *)

AddressConnections == Connections

NextAddress ==
    \/ /\ Spawned = {}
       /\ StartMonitoring(FALSE)
    \/ \E t \in AlivePollers : PollerLoopCheck(t)
    \/ \E t \in AlivePollers : PollerCycleEnd(t)
    \/ \E t \in AlivePollers, conn \in AddressConnections, env \in StopEnvs :
          PollerAnalyze(t, conn, env)

SpecAddress == InitBase /\ [][NextAddress]_vars

\* C29: a connection whose remote address is in 127.0.0.0/8, 10.0.0.0/8,
\* 172.16.0.0/12 or 192.168.0.0/16 is never submitted: no cache entry, no
\* classifier call, no verdict and no block come from it.
C29_PrivateAddressIsNoCandidate ==
    (last.op = "analyze" /\ last.arg.ip \in {"127.", "10.", "172.16.", "192.168."}) =>
        /\ last.ret # "submitted"
        /\ last.classifier = "unused"
        /\ ~last.emitted.has
        /\ ~last.block

-----------------------------------------------------------------------------
(* The intercepting proxy: dev-mode sessions, flows through the addon, and *)
(* manual block / unblock requests                                         *)

ProxyProbas == {ProbaRaises}
                 \cup {[kind |-> "two", p |-> p] : p \in {0, AutoBlockProxy + 1}}

\* Outcomes of steps that are not reached are left at their first value.
ProxyEnvs ==
    { e \in [extract : DbOutcomes, logtraffic : DbOutcomes, call : ClassifierCalls,
             proba : ProxyProbas, logdet : DbOutcomes] :
        /\ e.extract = "error" => e.logtraffic = "ok"
        /\ (e.extract = "error" \/ e.logtraffic = "error") =>
              (e.call = "return" /\ e.proba = ProbaRaises /\ e.logdet = "ok")
        /\ e.call = "raise" => (e.proba = ProbaRaises /\ e.logdet = "ok") }

\* The domain of the manual block / unblock requests made meanwhile.
ManualDomains == {<<"a">>}

NextProxy ==
    \/ /\ Spawned = {}
       /\ StartMonitoring(TRUE)
    \/ \E t \in AliveProxies, o \in ProxyOutcomes : ProxyStartup(t, o)
    \/ \E f \in FlowIds, t \in ServingProxies, d \in Domains, fault \in DbOutcomes :
          ProxyRequest(f, t, d, fault)
    \/ \E f \in FlowIds, env \in ProxyEnvs : ProxyResponse(f, env)
    \/ \E d \in ManualDomains : BlockDomain(d, "ok", "ok")
    \/ \E d \in ManualDomains : UnblockDomain(d, "ok", "ok")

SpecProxy == InitBase /\ [][NextProxy]_vars

\* C8: a flow whose request domain was in the addon's blocked set at request
\* time is answered with the blocked page, and no traffic_logs row and no
\* detection_logs row is ever written for it, also after its response hook.
C8_BlockedFlowLeavesNoRecord ==
    \A f \in FlowIds :
        flows[f].listed =>
            /\ flows[f].reply = BlockedPage
            /\ \A i \in 1..Len(traffic_logs) : traffic_logs[i].flow # f
            /\ \A i \in 1..Len(detection_logs) : detection_logs[i].flow # f

\* The response hook has fired for a flow that was answered with the blocked
\* page, while another flow was logged.
C8_Witness ==
    /\ \E f \in FlowIds : flows[f].listed /\ flows[f].stage = "responded"
    /\ last.op = "response" /\ flows[last.arg].listed
    /\ traffic_logs # <<>>

\* C16: the addon answers a request with the blocked page exactly when the
\* requested domain is in the monitor's in-memory set at that moment, and
\* every serving addon reads the very set the monitor holds.
C16_InterceptorSeesMonitorSet ==
    /\ last.op = "request" =>
          (flows[last.arg].reply = BlockedPage
              <=> Netloc(flows[last.arg].url) \in blocked_domains)
    /\ \A t \in ServingProxies : AddonSet(t) = blocked_domains

\* C17: after the response hook auto-blocked a domain, the domain is in the
\* monitor's in-memory set and has a row in blocked_sites.
C17_ProxyAutoBlockGoesThroughStore ==
    (last.op = "response" /\ last.block) =>
        /\ Netloc(flows[last.arg].url) \in blocked_domains
        /\ HasUrl(blocked_sites, HttpUrl(Netloc(flows[last.arg].url)))

\* C21: when the classifier is absent or fails while the response hook
\* handles a logged (non-blocked) flow, and log_detection works, a verdict
\* with probability 0.5 and not flagged is written for the flow.
C21_ProxyFailureEmitsNeutralVerdict ==
    (last.op = "response" /\ last.ret /\ ClassifierFailed(last.classifier)
        /\ last.persist = "ok") =>
        /\ last.emitted.has
        /\ last.emitted.row.confidence * 2 = Scale
        /\ ~last.emitted.row.is_gambling

-----------------------------------------------------------------------------
(* Flows through the addon of a monitor with or without a classifier       *)

NextTraffic ==
    \/ /\ Spawned = {}
       /\ StartMonitoring(TRUE)
    \/ \E t \in AliveProxies : ProxyStartup(t, "run")
    \/ \E f \in FlowIds, t \in ServingProxies, d \in Domains, fault \in DbOutcomes :
          ProxyRequest(f, t, d, fault)
    \/ \E f \in FlowIds, env \in ProxyEnvs : ProxyResponse(f, env)

SpecTraffic == InitPoll /\ [][NextTraffic]_vars

TrafficRowsOf(f) == { i \in 1..Len(traffic_logs) : traffic_logs[i].flow = f }

\* C32: after the response hook of a flow that has its request context, with
\* the response read and log_traffic working, the flow has one traffic_logs
\* row, whether the classifier is absent, failed or answered; and whenever
\* the classifier was reached the row had been written.
C32_TrafficLoggedBeforeClassification ==
    /\ (last.op = "response" /\ flows[last.arg].has_info
          /\ last.extract = "ok" /\ last.logtraffic = "ok") =>
          Cardinality(TrafficRowsOf(last.arg)) = 1
    /\ (last.op = "response" /\ last.classifier # "unused") =>
          Cardinality(TrafficRowsOf(last.arg)) = 1

\* The classifier raised for a flow whose traffic row is written.
C32_Witness ==
    /\ last.op = "response"
    /\ last.classifier = "raised"
    /\ Cardinality(TrafficRowsOf(last.arg)) = 1

\* C33: when reading the response headers or body raised in the response
\* hook of a flow that has its request context, and log_traffic works, the
\* flow still gets its traffic_logs row.
C33_ExtractionFailureStillLogs ==
    (last.op = "response" /\ flows[last.arg].has_info
        /\ last.extract = "error" /\ last.logtraffic = "ok") =>
        Cardinality(TrafficRowsOf(last.arg)) = 1

-----------------------------------------------------------------------------
(* Statistics requests, one after another                                  *)

InitStats ==
    /\ monitoring_active = FALSE
    /\ dev_mode = FALSE
    /\ monitor_thread = 0
    /\ proxy_thread = 0
    /\ threads = [t \in Tids |-> NoThread]
    /\ stopper = "idle"
    /\ blocked_sites = <<>>
    /\ blocked_domains = {}
    /\ addons = [t \in Tids |-> NoAddon]
    /\ flows = [f \in FlowIds |-> NoFlow]
    /\ traffic_logs = <<>>
    /\ detection_logs = <<>>
    /\ now = 0
    /\ connections_cache = <<>>
    /\ ml_predictor = "predict_gambling"
    /\ model = "loaded"
    /\ settings = DefaultSetting
    /\ last_net_check = [has |-> FALSE]
    /\ last_bandwidth_log = [has |-> FALSE]
    /\ bandwidth_history = <<>>
    /\ driver \in {FreeDriver, SecondlyDriver}
    /\ requests = [c \in RequestIds |-> NoRequest]
    /\ last = NoOp

\* Counter increments between two readings: nothing, a few bytes, a quarter
\* of a Mbit over one second, one MiB.
SentDeltas == {0, 1000, 1024 * 1024}
RecvDeltas == {0, 32 * 1024}

StatsInputs ==
    { i \in [dsent : SentDeltas, drecv : RecvDeltas, outcome : StatsOutcomes] :
        /\ i.outcome = "psutil_error" => (i.dsent = 0 /\ i.drecv = 0)
        /\ i.drecv # 0 => i.dsent = 0 }

NextStats ==
    \/ /\ driver.mode = "free"
       /\ driver.calls < MaxCalls
       /\ \E i \in StatsInputs : GetRealTimeStats(i.dsent, i.drecv, i.outcome)
    \/ /\ driver.mode = "free"
       /\ \E d \in Gaps : Elapse(d)
    \/ /\ driver.mode = "secondly"
       /\ driver.calls < TenMinutes
       /\ driver.calls >= 1 => driver.due
       /\ GetRealTimeStats(0, 0, "ok")
    \/ /\ driver.mode = "secondly"
       /\ driver.calls < TenMinutes
       /\ Elapse(1)

SpecStats == InitStats /\ [][NextStats]_vars

\* C9: two consecutive rows of bandwidth_history are at least 5 minutes
\* apart, and a caller that invoked get_real_time_stats once per second for
\* 10 minutes, starting without a persisted sample, has exactly 2 rows.
C9_SamplesFiveMinutesApart ==
    /\ \A i \in 1..(Len(bandwidth_history) - 1) :
          bandwidth_history[i + 1].at - bandwidth_history[i].at >= 5 * 60
    /\ (driver.mode = "secondly" /\ driver.calls = TenMinutes) =>
          Len(bandwidth_history) = 2

C9_Witness ==
    /\ driver.mode = "secondly"
    /\ driver.calls = TenMinutes
    /\ last.op = "stats"
    /\ Len(bandwidth_history) = 2


CallWithPrevious == last.op = "stats" /\ last.prev.has

SentDiff == last.arg[1]
RecvDiff == last.arg[2]
ElapsedSeconds == last.at - last.prev.time

SentRead == (IF last.prev.has THEN last.prev.bytes_sent ELSE 0) + last.arg[1]
RecvRead == (IF last.prev.has THEN last.prev.bytes_recv ELSE 0) + last.arg[2]

\* C31: an invocation without a previous sample reports 0; after every
\* successful invocation the previous-sample state holds the time and the
\* counters that invocation read; an invocation computes from the state it
\* finds, and nothing but an invocation changes that state.
C31_DeltasAgainstPrecedingInvocation ==
    /\ []((last.op = "stats" /\ last.ret = "ok") =>
            /\ ~last.prev.has => (last.total_mbps.num = 0 /\ last.bandwidth_mbps = 0)
            /\ last_net_check.has
            /\ last_net_check.time = last.at
            /\ last_net_check.bytes_sent = SentRead
            /\ last_net_check.bytes_recv = RecvRead)
    /\ [][/\ last'.op = "stats" => last'.prev = last_net_check
          /\ last'.op # "stats" => UNCHANGED last_net_check]_vars

\* A third invocation, one second after the second, which had read 1 MiB
\* more than the first: it reports against the second's reading.
C31_Witness ==
    /\ last.op = "stats" /\ last.ret = "ok"
    /\ driver.calls = 3
    /\ last.prev.has /\ last.prev.bytes_sent = 1024 * 1024
    /\ last.at - last.prev.time = 1
    /\ last.arg[1] = 0
    /\ last.bandwidth_mbps = 0

-----------------------------------------------------------------------------
(* A dev-mode session that is stopped while the proxy serves               *)

NextSession ==
    \/ /\ Spawned = {}
       /\ StartMonitoring(TRUE)
    \/ \E t \in AlivePollers : PollerLoopCheck(t)
    \/ \E t \in AlivePollers : PollerCycleEnd(t)
    \/ \E t \in AliveProxies : ProxyStartup(t, "run")
    \/ StopBegin
    \/ StopReturn
    \/ \E f \in FlowIds, t \in ServingProxies, d \in Domains :
          ProxyRequest(f, t, d, "ok")
    \/ \E f \in FlowIds, env \in ProxyEnvs : ProxyResponse(f, env)

SpecSession == InitBase /\ [][NextSession]_vars

\* C13: a flow whose request arrived after stop_monitoring() returned gets no
\* traffic_logs row, no classifier call (hence no detection_logs row) and no
\* auto-block.
C13_NoNewFlowAfterStop ==
    /\ \A f \in FlowIds :
          flows[f].after_stop =>
              /\ \A i \in 1..Len(traffic_logs) : traffic_logs[i].flow # f
              /\ \A i \in 1..Len(detection_logs) : detection_logs[i].flow # f
    /\ (last.op = "response" /\ flows[last.arg].after_stop) =>
          (last.classifier = "unused" /\ ~last.block)

-----------------------------------------------------------------------------
(* Statistics requests of several callers at the same time                 *)

StatsRaceGaps == {150, 151}

NextStatsRace ==
    \/ \E c \in RequestIds : StatsRead(c)
    \/ \E c \in RequestIds : StatsLog(c)
    \/ \E c \in RequestIds : StatsMark(c)
    \/ \E d \in StatsRaceGaps : Tick(d)

SpecStatsRace == InitBase /\ [][NextStatsRace]_vars

\* C30: with get_real_time_stats invoked by several callers at the same
\* time, any two persisted bandwidth samples are at least 5 minutes apart.
C30_ThrottleHoldsUnderConcurrency ==
    \A i, j \in 1..Len(bandwidth_history) :
        i < j => bandwidth_history[j].at - bandwidth_history[i].at >= 5 * 60

-----------------------------------------------------------------------------
(* Bandwidth history requests                                              *)

HoursArgs == {1, 2, 25}

NextHistory ==
    \/ \E h \in HoursArgs, db \in DbOutcomes, rnd \in RandomDraws :
          GetBandwidthHistory(h, db, rnd)
    \/ /\ driver.calls < 1
       /\ GetRealTimeStats(0, 0, "ok")

SpecHistory == InitBase /\ [][NextHistory]_vars

GeneratedTwice ==
    /\ last.op = "history" /\ last.generated
    /\ last.prev.op = "history" /\ last.prev.generated
    /\ last.prev.arg = last.arg

\* C15: without persisted bandwidth history, two get_bandwidth_history(hours)
\* calls in a row return the same bandwidth and active-connection values in
\* the same order, min(hours, 24) entries, timestamps ascending.
C15_PlaceholderIsDeterministic ==
    GeneratedTwice =>
        /\ Len(last.ret) = Min(last.arg, 24)
        /\ Len(last.prev.ret) = Len(last.ret)
        /\ \A k \in 1..Len(last.ret) :
              /\ last.ret[k].bandwidth_mbps = last.prev.ret[k].bandwidth_mbps
              /\ last.ret[k].active_connections = last.prev.ret[k].active_connections
        /\ \A k \in 1..(Len(last.ret) - 1) :
              last.ret[k].timestamp < last.ret[k + 1].timestamp

-----------------------------------------------------------------------------
(* Concurrent block / unblock requests, without store or hosts-file faults *)

NextRace ==
    \/ \E c \in RequestIds, op \in {"block", "unblock"}, d \in Domains : CallBegin(c, op, d)
    \/ \E c \in RequestIds : CallStore(c, "ok")
    \/ \E c \in RequestIds : CallMemory(c)
    \/ \E c \in RequestIds : CallReturn(c, "ok")

SpecRace == InitBase /\ [][NextRace]_vars

\* Every call made has returned, and returned success.
AllReturnedSuccess ==
    /\ \A c \in RequestIds : requests[c].pc \in {"idle", "done"}
    /\ \E c \in RequestIds : requests[c].pc = "done"
    /\ \A c \in RequestIds : requests[c].ret

\* C18: once all concurrent block_domain / unblock_domain calls have returned
\* success, a domain is in the in-memory set iff it has a persisted entry.
C18_SetAndStoreAgreeWhenQuiescent ==
    AllReturnedSuccess =>
        \A d \in Domains : d \in blocked_domains <=> HasUrl(blocked_sites, HttpUrl(d))

-----------------------------------------------------------------------------
(* Concurrent start_monitoring calls on a stopped monitor, one per request *)
(* thread, and the workers they start                                      *)

NextStartRace ==
    \/ \E c \in RequestIds, dev \in BOOLEAN : StartCheck(c, dev)
    \/ \E c \in RequestIds : StartSpawn(c)
    \/ \E t \in AlivePollers : PollerLoopCheck(t)
    \/ \E t \in AlivePollers : PollerCycleEnd(t)
    \/ \E t \in AliveProxies, o \in ProxyOutcomes : ProxyStartup(t, o)

SpecStartRace == InitBase /\ [][NextStartRace]_vars

StartCallers == { c \in RequestIds : requests[c].op = "start" }

\* C23: when two concurrent start_monitoring calls made on a stopped monitor
\* have both returned, exactly one returned success, exactly one poller
\* thread was spawned and at most one proxy thread.
C23_ConcurrentStartsSpawnOnce ==
    (Cardinality(StartCallers) = 2 /\ \A c \in StartCallers : requests[c].pc = "done") =>
        /\ Cardinality({ c \in StartCallers : requests[c].ret }) = 1
        /\ Cardinality({ t \in Tids : threads[t].kind = "poller" }) = 1
        /\ Cardinality({ t \in Tids : threads[t].kind = "proxy" }) <= 1

-----------------------------------------------------------------------------
(* The auto-block policy of both origins, at and around the two limits     *)

StrictSetting == [kind |-> "number", value |-> 90]

InitPolicy ==
    /\ monitoring_active = FALSE
    /\ dev_mode = FALSE
    /\ monitor_thread = 0
    /\ proxy_thread = 0
    /\ threads = [t \in Tids |-> NoThread]
    /\ stopper = "idle"
    /\ blocked_sites = <<>>
    /\ blocked_domains = {}
    /\ addons = [t \in Tids |-> NoAddon]
    /\ flows = [f \in FlowIds |-> NoFlow]
    /\ traffic_logs = <<>>
    /\ detection_logs = <<>>
    /\ now = 0
    /\ connections_cache = <<>>
    /\ ml_predictor = "predict_gambling"
    /\ model = "loaded"
    /\ settings \in {DefaultSetting, StrictSetting}
    /\ last_net_check = [has |-> FALSE]
    /\ last_bandwidth_log = [has |-> FALSE]
    /\ bandwidth_history = <<>>
    /\ driver = FreeDriver
    /\ requests = [c \in RequestIds |-> NoRequest]
    /\ last = NoOp

\* Scores at and just above each origin's limit.
PolicyPollProbas ==
    {[kind |-> "two", p |-> p] : p \in {AutoBlockConnection, AutoBlockConnection + 1}}
PolicyProxyProbas ==
    {[kind |-> "two", p |-> p] : p \in {AutoBlockProxy, AutoBlockProxy + 1}}

PolicyPollEnvs ==
    [logconn : {"ok"}, call : {"return"}, proba : PolicyPollProbas,
     logdet : DbOutcomes, dbblock : {"ok"}]

PolicyProxyEnvs ==
    [extract : {"ok"}, logtraffic : {"ok"}, call : {"return"},
     proba : PolicyProxyProbas, logdet : {"ok"}]

PolicyDomains == {<<"a">>}
PolicyConnections == [ip : {"public"}, host : PolicyDomains, port : Ports]

NextPolicy ==
    \/ Tick(150)
    \/ /\ Spawned = {}
       /\ StartMonitoring(TRUE)
    \/ \E t \in AlivePollers : PollerLoopCheck(t)
    \/ \E t \in AliveProxies : ProxyStartup(t, "run")
    \/ \E t \in AlivePollers, conn \in PolicyConnections, env \in PolicyPollEnvs :
          PollerAnalyze(t, conn, env)
    \/ \E f \in FlowIds, t \in ServingProxies, d \in PolicyDomains :
          ProxyRequest(f, t, d, "ok")
    \/ \E f \in FlowIds, env \in PolicyProxyEnvs : ProxyResponse(f, env)

SpecPolicy == InitPolicy /\ [][NextPolicy]_vars

\* C37: when log_detection fails for a connection whose verdict qualifies for
\* the automatic block (flagged, probability above 0.7, host not blocked), the
\* host is blocked all the same.
C37_BlockSurvivesFailedVerdictLog ==
    (/\ last.op = "analyze" /\ last.ret = "submitted"
     /\ ~last.emitted.has /\ last.qualifies) =>
        last.arg.host \in blocked_domains

\* C19: a connection-origin candidate whose verdict was logged is blocked iff
\* the verdict is flagged, its probability is strictly above 0.7 and its host
\* was not blocked yet (and then the host is in the in-memory set); one whose
\* verdict was not logged is not blocked; a proxy-origin candidate is blocked
\* only if its verdict is flagged and its probability strictly above 0.8.
C19_AutoBlockPolicy ==
    /\ (Submitted /\ last.emitted.has) =>
          /\ last.block <=>
                /\ last.emitted.row.is_gambling
                /\ 10 * last.emitted.row.confidence > 7 * Scale
                /\ last.arg.host \notin last.pre
          /\ last.block => last.arg.host \in blocked_domains
          /\ ~last.block => blocked_domains = last.pre
    /\ (last.op = "analyze" /\ ~last.emitted.has) => ~last.block
    /\ (last.op = "response" /\ last.block) =>
          /\ last.emitted.has
          /\ last.emitted.row.is_gambling
          /\ 10 * last.emitted.row.confidence > 8 * Scale

\* A flagged connection-origin verdict of exactly 0.7 for a host that is not
\* blocked: no block.
C19_Witness ==
    /\ Submitted /\ last.emitted.has
    /\ last.emitted.row.is_gambling
    /\ 10 * last.emitted.row.confidence = 7 * Scale
    /\ last.arg.host \notin last.pre
    /\ ~last.block
    /\ last.arg.host \notin blocked_domains

====
